---- MODULE Spec2Model ----
(***************************************************************************)
(* A model of hypothesis_gufunc.extra.xr (strategies that build xarray    *)
(* DataArray / Dataset objects) and of the gufunc_args generator used by  *)
(* the gist tests.                                                         *)
(*                                                                         *)
(* A strategy is modelled by the set of values one draw can return; a     *)
(* constructor call is one step (validation and everything the Python     *)
(* evaluates eagerly), and each dependent draw (flatmap / filter stage)   *)
(* is one further step.                                                    *)
(*                                                                         *)
(* Encodings                                                               *)
(*   None            the empty tuple << >>; an int n is Some(n) = <<n>>   *)
(*   text names      1..NumText, ordered as the strings are ordered       *)
(*   other hashables -1 and 0 (representatives of the floats and integers) *)
(*   list            a sequence                                           *)
(*   OrderedDict     a sequence of <<key, value>> pairs in key order      *)
(*   ndarray         [shape, dtype, fill]; fill stands for the elements   *)
(***************************************************************************)
EXTENDS Integers, Sequences, FiniteSets, TLC

\* ---------------------------------------------------------------- bounds
NumText == 2        \* how many distinct text names _easy_text can return
MaxLen == 2         \* cap on a size that the call leaves unbounded (max None)
FilterTries == 3    \* candidates .filter() looks at before it gives the example up

\* ------------------------------------------------------ program constants
DEFAULT_SIDE == 5
DEFAULT_DIMS == 5
DEFAULT_VARS == 5

DEFAULT_DTYPE == "int"

\* --------------------------------------------------------------- encoding
None == << >>
Some(n) == <<n>>
IsNone(x) == x = None
Val(x) == x[1]

Range(s) == {s[i] : i \in 1..Len(s)}
Unique(s) == \A i, j \in 1..Len(s) : s[i] = s[j] => i = j
Min(a, b) == IF a <= b THEN a ELSE b
Max(a, b) == IF a >= b THEN a ELSE b
SeqsUpTo(X, n) == UNION {[1..k -> X] : k \in 0..n}

\* a raised exception, in place of the value a call would have returned
Raise(exc) == [kind |-> "raise", exc |-> exc]
Raised(x) == x.kind = "raise"

\* dict helpers on sequences of <<key, value>> pairs
Keys(D) == [i \in 1..Len(D) |-> D[i][1]]
Values(D) == [i \in 1..Len(D) |-> D[i][2]]
HasKey(D, k) == \E i \in 1..Len(D) : D[i][1] = k
Get(D, k) == D[CHOOSE i \in 1..Len(D) : D[i][1] = k][2]

\* OrderedDict(pairs): a repeated key keeps its first place and its last value
RECURSIVE OrderedDict(_)
OrderedDict(pairs) ==
  IF pairs = << >> THEN << >>
  ELSE LET n == Len(pairs)
           init == OrderedDict(SubSeq(pairs, 1, n - 1))
           kv == pairs[n]
       IN IF HasKey(init, kv[1])
          THEN [i \in 1..Len(init) |-> IF init[i][1] = kv[1] THEN kv ELSE init[i]]
          ELSE Append(init, kv)

\* ------------------------------------------------ hypothesis primitives
\* order_check(name, floor, min_, max_): TRUE when it does not raise
order_check(floor, min_, max_) == ~(floor > min_) /\ ~(min_ > max_)

\* lists(elements, min_size, max_size, unique): the strategy object
lists(elements, min_size, max_size, unique) ==
  [kind |-> "lists", elements |-> elements, min_size |-> min_size,
   max_size |-> max_size, unique |-> unique]

\* the lists one draw of a lists(...) strategy can return
lists_draws(st) ==
  LET cap == IF IsNone(st.max_size) THEN
               (IF st.unique THEN Min(Cardinality(st.elements), Max(MaxLen, st.min_size))
                ELSE Max(MaxLen, st.min_size))
             ELSE Val(st.max_size)
  IN {s \in SeqsUpTo(st.elements, cap) : Len(s) >= st.min_size /\ (st.unique => Unique(s))}

\* sampled_from(L) / nothing(): the element values a draw can return
sampled_from(L) == Range(L)
nothing == {}

\* integers(min_value, max_value): the values a draw can return
integers(min_value, max_value) ==
  IF IsNone(max_value) THEN min_value..Max(MaxLen, min_value) ELSE min_value..Val(max_value)

\* integers() as the default coordinate elements, and the array elements:
\* two representative values
CoordVals == {0, 1}
ElementVals == {0, 1}

range_bad(n) == [i \in 1..n |-> i]

\* range(n) as a list
range(n) == [i \in 1..n |-> i - 1]

\* the values one draw of a coordinate strategy can return
coords_draws(st) ==
  IF st.kind = "lists" THEN lists_draws(st)
  ELSE {range(n) : n \in st.n}

\* fixed_dictionaries(C): the dicts one draw can return
RECURSIVE fixed_dictionaries_draws(_)
fixed_dictionaries_draws(C) ==
  IF C = << >> THEN {<< >>}
  ELSE {<< <<Head(C)[1], v>> >> \o rest :
          v \in coords_draws(Head(C)[2]), rest \in fixed_dictionaries_draws(Tail(C))}

\* fixed_dictionaries(C): the strategy object
fixed_dictionaries(C) == [kind |-> "fixed_dictionaries", C |-> C]

\* arrays(dtype, shape, elements): the strategy, and the arrays a draw returns
arrays(dtype, shape) == [kind |-> "arrays", dtype |-> dtype, shape |-> shape]

arrays_draws(st) ==
  LET empty == \E i \in 1..Len(st.shape) : st.shape[i] = 0
  IN {[shape |-> st.shape, dtype |-> st.dtype, fill |-> f] :
        f \in IF empty THEN {None} ELSE {Some(e) : e \in ElementVals}}

\* xr.DataArray(data, coords=coords, dims=dims), xr.Dataset(data, coords=coords)
DataArray(data, coords, dims) == [data |-> data, coords |-> coords, dims |-> dims]
Dataset(data, coords) == [data_vars |-> data, coords |-> coords]

\* _easy_text(): text names; _hashable(): floats | integers | text
_easy_text == 1..NumText
_hashable == {-1, 0} \cup _easy_text
xr_dims == _easy_text
xr_vars == _hashable

\* ------------------------------------------------------------ validation
_check_valid_size_interval_bad(min_size, max_size, floor) ==
  IF IsNone(max_size) THEN order_check(floor, min_size, min_size)
  ELSE order_check(floor, Max(floor, min_size), Max(Val(max_size), Max(floor, min_size)))

\* TRUE when the check does not raise
_check_valid_size_interval(min_size, max_size, floor) ==
  IF IsNone(max_size) THEN order_check(floor, min_size, min_size)
  ELSE order_check(floor, min_size, Val(max_size))

\* ----------------------------------------------------------- _get_all_dims
\* sum((list(dd) for dd in vars_to_dims.values()), [])
RECURSIVE sum_lists(_)
sum_lists(vs) == IF vs = << >> THEN << >> ELSE Head(vs) \o sum_lists(Tail(vs))

set(L) == Range(L)

RECURSIVE sorted(_)
sorted(X) ==
  IF X = {} THEN << >>
  ELSE LET m == CHOOSE x \in X : \A y \in X : x <= y
       IN <<m>> \o sorted(X \ {m})

_get_all_dims_bad(vars_to_dims) ==
  IF vars_to_dims = << >> THEN << >> ELSE sorted(set(vars_to_dims[1][2]))

_get_all_dims(vars_to_dims) == sorted(set(sum_lists(Values(vars_to_dims))))

\* ---------------------------------------------------------- subset_lists
uniq_len(L) == Cardinality(set(L))

subset_lists_bad(L, min_size, max_size) ==
  IF ~_check_valid_size_interval(min_size, max_size, 0) THEN Raise("InvalidArgument")
  ELSE IF ~order_check(0, min_size, uniq_len(L)) THEN Raise("InvalidArgument")
  ELSE lists(sampled_from(L), min_size, max_size, FALSE)

subset_lists_nocheck(L, min_size, max_size) ==
  IF ~_check_valid_size_interval(min_size, max_size, 0) THEN Raise("InvalidArgument")
  ELSE lists(sampled_from(L), min_size,
             Some(IF IsNone(max_size) THEN uniq_len(L) ELSE Min(uniq_len(L), Val(max_size))),
             TRUE)

subset_lists_noclamp(L, min_size, max_size) ==
  IF ~_check_valid_size_interval(min_size, max_size, 0) THEN Raise("InvalidArgument")
  ELSE IF ~order_check(0, min_size, uniq_len(L)) THEN Raise("InvalidArgument")
  ELSE lists(sampled_from(L), min_size,
             Some(IF IsNone(max_size) THEN Len(L) ELSE Val(max_size)), TRUE)

subset_lists(L, min_size, max_size) ==
  IF ~_check_valid_size_interval(min_size, max_size, 0) THEN Raise("InvalidArgument")
  ELSE IF ~order_check(0, min_size, uniq_len(L)) THEN Raise("InvalidArgument")
  ELSE LET max_size2 == IF IsNone(max_size) THEN uniq_len(L)
                        ELSE Min(uniq_len(L), Val(max_size))
           elements_st == IF uniq_len(L) = 0 THEN nothing ELSE sampled_from(L)
       IN lists(elements_st, min_size, Some(max_size2), TRUE)

\* ------------------------------------------------------- name generators
xr_dim_lists_bad(min_dims, max_dims) ==
  IF ~_check_valid_size_interval(min_dims, max_dims, 0) THEN Raise("InvalidArgument")
  ELSE lists(xr_dims, min_dims, max_dims, FALSE)

xr_dim_lists(min_dims, max_dims) ==
  IF ~_check_valid_size_interval(min_dims, max_dims, 0) THEN Raise("InvalidArgument")
  ELSE lists(xr_dims, min_dims, max_dims, TRUE)

xr_var_lists(min_vars, max_vars) ==
  IF ~_check_valid_size_interval(min_vars, max_vars, 0) THEN Raise("InvalidArgument")
  ELSE lists(xr_vars, min_vars, max_vars, TRUE)

no_overlap_bad(pair) == TRUE

\* the filter of _vars_and_dims_pairs
no_overlap(pair) == Cardinality(set(pair[2]) \cap set(pair[1])) = 0

_vars_and_dims_pairs_bad(min_vars, max_vars, min_dims, max_dims) ==
  LET vars_st == xr_var_lists(min_vars, max_vars)
      dims_st == xr_dim_lists(0, max_dims)
  IN IF Raised(vars_st) THEN vars_st
     ELSE IF Raised(dims_st) THEN dims_st
     ELSE [kind |-> "_vars_and_dims_pairs", vars_st |-> vars_st, dims_st |-> dims_st]

\* tuples(xr_var_lists(...), xr_dim_lists(...)).filter(no_overlap)
_vars_and_dims_pairs(min_vars, max_vars, min_dims, max_dims) ==
  LET vars_st == xr_var_lists(min_vars, max_vars)
      dims_st == xr_dim_lists(min_dims, max_dims)
  IN IF Raised(vars_st) THEN vars_st
     ELSE IF Raised(dims_st) THEN dims_st
     ELSE [kind |-> "_vars_and_dims_pairs", vars_st |-> vars_st, dims_st |-> dims_st]

vars_to_dims_dicts(min_vars, max_vars, min_dims, max_dims) ==
  IF ~_check_valid_size_interval(min_vars, max_vars, 0) THEN Raise("InvalidArgument")
  ELSE IF ~_check_valid_size_interval(min_dims, max_dims, 0) THEN Raise("InvalidArgument")
  ELSE LET pairs == _vars_and_dims_pairs(min_vars, max_vars, min_dims, max_dims)
       IN IF Raised(pairs) THEN pairs
          ELSE [kind |-> "vars_to_dims_dicts", pairs |-> pairs,
                min_dims |-> min_dims, max_dims |-> max_dims]

map_dict_ownpool(pair, min_dims, max_dims) ==
  LET dim_st == subset_lists(sorted(xr_dims), min_dims, max_dims)
  IN IF Raised(dim_st) THEN dim_st
     ELSE fixed_dictionaries(OrderedDict([i \in 1..Len(pair[1]) |-> <<pair[1][i], dim_st>>]))

map_dict_bad(pair, min_dims, max_dims) ==
  LET dim_st == subset_lists(pair[2] \o pair[1], min_dims, max_dims)
  IN IF Raised(dim_st) THEN dim_st
     ELSE fixed_dictionaries(OrderedDict([i \in 1..Len(pair[1]) |-> <<pair[1][i], dim_st>>]))

\* map_dict inside vars_to_dims_dicts: the fixed_dictionaries strategy, or
\* what subset_lists raised
map_dict(pair, min_dims, max_dims) ==
  LET vars_ == pair[1]
      dims == pair[2]
      dim_st == subset_lists(dims, min_dims, max_dims)
  IN IF Raised(dim_st) THEN dim_st
     ELSE fixed_dictionaries(OrderedDict([i \in 1..Len(vars_) |-> <<vars_[i], dim_st>>]))

\* ------------------------------------------------------------ coordinates
\* elements is None (integers()) or Some(the set of values it can draw)
xr_coords(elements, min_side, max_side, unique) ==
  IF ~_check_valid_size_interval(min_side, max_side, 0) THEN Raise("InvalidArgument")
  ELSE lists(IF IsNone(elements) THEN CoordVals ELSE Val(elements), min_side, max_side, unique)

simple_coords(min_side, max_side) ==
  IF ~_check_valid_size_interval(min_side, max_side, 0) THEN Raise("InvalidArgument")
  ELSE [kind |-> "simple_coords", n |-> integers(min_side, max_side)]

get_bad(coords_st, dd, default_st) == default_st

\* coords_st.get(dd, default_st)
get(coords_st, dd, default_st) == IF HasKey(coords_st, dd) THEN Get(coords_st, dd) ELSE default_st

xr_coords_dicts_bad(dims, elements, min_side, max_side, unique_coords, coords_st) ==
  IF ~_check_valid_size_interval(min_side, max_side, 0) THEN Raise("InvalidArgument")
  ELSE LET default_st == xr_coords(elements, 0, max_side, unique_coords)
           C == OrderedDict([i \in 1..Len(dims) |-> <<dims[i], get(coords_st, dims[i], default_st)>>])
       IN fixed_dictionaries(C)

xr_coords_dicts(dims, elements, min_side, max_side, unique_coords, coords_st) ==
  IF ~_check_valid_size_interval(min_side, max_side, 0) THEN Raise("InvalidArgument")
  ELSE LET default_st == xr_coords(elements, min_side, max_side, unique_coords)
           C == OrderedDict([i \in 1..Len(dims) |-> <<dims[i], get(coords_st, dims[i], default_st)>>])
       IN fixed_dictionaries(C)

\* ------------------------------------------------------------- DataArray
\* {dd: cc for dd, cc in coords.items() if dd in dims}
RECURSIVE restrict(_, _)
restrict(coords, dims) ==
  IF coords = << >> THEN << >>
  ELSE (IF Head(coords)[1] \in set(dims) THEN <<Head(coords)>> ELSE << >>)
       \o restrict(Tail(coords), dims)

fixed_coords_dataarrays_bad(dims, coords, dtype) ==
  IF \E i \in 1..Len(dims) : ~HasKey(coords, dims[i]) THEN Raise("KeyError")
  ELSE LET sdims == sorted(set(dims))
           shape == [i \in 1..Len(sdims) |-> Len(Get(coords, sdims[i]))]
       IN [kind |-> "fixed_coords_dataarrays", data_st |-> arrays(dtype, shape),
           coords |-> restrict(coords, dims), dims |-> dims]

fixed_coords_dataarrays(dims, coords, dtype) ==
  IF \E i \in 1..Len(dims) : ~HasKey(coords, dims[i]) THEN Raise("KeyError")
  ELSE LET shape == [i \in 1..Len(dims) |-> Len(Get(coords, dims[i]))]
       IN [kind |-> "fixed_coords_dataarrays", data_st |-> arrays(dtype, shape),
           coords |-> restrict(coords, dims), dims |-> dims]

\* the DataArrays one draw of fixed_coords_dataarrays can return
fixed_coords_dataarrays_draws(st) ==
  {DataArray(data, st.coords, st.dims) : data \in arrays_draws(st.data_st)}

fixed_dataarrays(dims, dtype, coords_elements, min_side, max_side, coords_st) ==
  IF ~_check_valid_size_interval(min_side, max_side, 0) THEN Raise("InvalidArgument")
  ELSE [kind |-> "fixed_dataarrays",
        coords_st |-> xr_coords_dicts(dims, coords_elements, min_side, max_side, TRUE, coords_st),
        dims |-> dims, dtype |-> dtype]

simple_dataarrays(dims, dtype, min_side, max_side) ==
  IF ~_check_valid_size_interval(min_side, max_side, 0) THEN Raise("InvalidArgument")
  ELSE LET default_st == simple_coords(min_side, max_side)
           coords_st == OrderedDict([i \in 1..Len(dims) |-> <<dims[i], default_st>>])
       IN fixed_dataarrays(dims, dtype, None, 0, Some(DEFAULT_SIDE), coords_st)

dataarrays(dtype, coords_elements, min_side, max_side, min_dims, max_dims) ==
  IF ~_check_valid_size_interval(min_side, max_side, 0) THEN Raise("InvalidArgument")
  ELSE IF ~_check_valid_size_interval(min_dims, max_dims, 0) THEN Raise("InvalidArgument")
  ELSE [kind |-> "dataarrays", dims_st |-> xr_dim_lists(min_dims, max_dims),
        dtype |-> dtype, coords_elements |-> coords_elements,
        min_side |-> min_side, max_side |-> max_side]

\* --------------------------------------------------------------- Dataset
\* A dtype mapping is [default, items]: a defaultdict with its default, or a
\* plain dict (default "KeyError").  dtype None is the tuple << >>.
defaultdict(default) == [default |-> default, items |-> << >>]
dict(items) == [default |-> "KeyError", items |-> items]

lookup_bad(dtype, vv) == DEFAULT_DTYPE

\* dtype[vv]: the value, and the mapping after the lookup
lookup(dtype, vv) == IF HasKey(dtype.items, vv) THEN Get(dtype.items, vv) ELSE dtype.default

RECURSIVE after_lookups(_, _)
after_lookups(dtype, ks) ==
  IF ks = << >> THEN dtype
  ELSE LET k == Head(ks)
           d == IF HasKey(dtype.items, k) \/ dtype.default = "KeyError" THEN dtype
                ELSE [dtype EXCEPT !.items = Append(@, <<k, dtype.default>>)]
       IN after_lookups(d, Tail(ks))

fixed_coords_datasets_bad(vars_to_dims, coords, dtype) ==
  LET dtype_d == IF IsNone(dtype) THEN defaultdict(DEFAULT_DTYPE) ELSE dtype
      C == OrderedDict([i \in 1..Len(vars_to_dims) |->
             <<vars_to_dims[i][1],
               fixed_coords_dataarrays(_get_all_dims(vars_to_dims), coords,
                                       lookup(dtype_d, vars_to_dims[i][1]))>>])
  IN IF \E i \in 1..Len(vars_to_dims) : lookup(dtype_d, vars_to_dims[i][1]) = "KeyError"
     THEN Raise("KeyError")
     ELSE IF \E i \in 1..Len(C) : Raised(C[i][2]) THEN Raise("KeyError")
     ELSE [kind |-> "fixed_coords_datasets", data_st |-> C, coords |-> coords]

fixed_coords_datasets(vars_to_dims, coords, dtype) ==
  LET dtype_d == IF IsNone(dtype) THEN defaultdict(DEFAULT_DTYPE) ELSE dtype
      C == OrderedDict([i \in 1..Len(vars_to_dims) |->
             <<vars_to_dims[i][1],
               fixed_coords_dataarrays(vars_to_dims[i][2], coords,
                                       lookup(dtype_d, vars_to_dims[i][1]))>>])
  IN IF \E i \in 1..Len(vars_to_dims) : lookup(dtype_d, vars_to_dims[i][1]) = "KeyError"
     THEN Raise("KeyError")
     ELSE IF \E i \in 1..Len(C) : Raised(C[i][2]) THEN Raise("KeyError")
     ELSE [kind |-> "fixed_coords_datasets", data_st |-> C, coords |-> coords]

\* fixed_dictionaries(C) of DataArray strategies, then xr.Dataset
RECURSIVE data_draws(_)
data_draws(C) ==
  IF C = << >> THEN {<< >>}
  ELSE {<< <<Head(C)[1], da>> >> \o rest :
          da \in fixed_coords_dataarrays_draws(Head(C)[2]), rest \in data_draws(Tail(C))}

fixed_coords_datasets_draws(st) == {Dataset(data, st.coords) : data \in data_draws(st.data_st)}

fixed_datasets(vars_to_dims, dtype, coords_elements, min_side, max_side, coords_st) ==
  IF ~_check_valid_size_interval(min_side, max_side, 0) THEN Raise("InvalidArgument")
  ELSE LET all_dims == _get_all_dims(vars_to_dims)
       IN [kind |-> "fixed_datasets",
           coords_st |-> xr_coords_dicts(all_dims, coords_elements, min_side, max_side, TRUE, coords_st),
           vars_to_dims |-> vars_to_dims, all_dims |-> all_dims, dtype |-> dtype]

simple_datasets_bad(vars_to_dims, dtype, min_side, max_side) ==
  IF ~_check_valid_size_interval(min_side, max_side, 0) THEN Raise("InvalidArgument")
  ELSE fixed_datasets(vars_to_dims, dtype, None, 0, Some(DEFAULT_SIDE), << >>)

simple_datasets(vars_to_dims, dtype, min_side, max_side) ==
  IF ~_check_valid_size_interval(min_side, max_side, 0) THEN Raise("InvalidArgument")
  ELSE LET all_dims == _get_all_dims(vars_to_dims)
           default_st == simple_coords(min_side, max_side)
           coords_st == OrderedDict([i \in 1..Len(all_dims) |-> <<all_dims[i], default_st>>])
       IN fixed_datasets(vars_to_dims, dtype, None, 0, Some(DEFAULT_SIDE), coords_st)

datasets(dtype, coords_elements, min_side, max_side, min_vars, max_vars, min_dims, max_dims) ==
  IF ~_check_valid_size_interval(min_side, max_side, 0) THEN Raise("InvalidArgument")
  ELSE IF ~_check_valid_size_interval(min_vars, max_vars, 0) THEN Raise("InvalidArgument")
  ELSE IF ~_check_valid_size_interval(min_dims, max_dims, 0) THEN Raise("InvalidArgument")
  ELSE [kind |-> "datasets",
        vars_to_dims |-> vars_to_dims_dicts(min_vars, max_vars, min_dims, max_dims),
        dtype |-> defaultdict(dtype), coords_elements |-> coords_elements,
        min_side |-> min_side, max_side |-> max_side]

datasets_mapper_bad(st, V) ==
  fixed_datasets(SubSeq(V, 1, 1), st.dtype, st.coords_elements, st.min_side, st.max_side, << >>)

\* mapper inside datasets: the strategy flatmap continues with after V is drawn
datasets_mapper(st, V) ==
  fixed_datasets(V, st.dtype, st.coords_elements, st.min_side, st.max_side, << >>)

\* mapper inside dataarrays
dataarrays_mapper(st, D) ==
  fixed_dataarrays(D, st.dtype, st.coords_elements, st.min_side, st.max_side, << >>)

\* ----------------------------------------------------------- gufunc_args
\* hypothesis_gufunc.gufunc is not among the sources: the parser, the shape
\* resolver and the array bundle follow sections 4.1-4.3 of the specification.
\* A signature string is the sequence of its characters.
Punctuation == {"(", ")", ",", "-", ">"}

\* the first index of token t in toks, 0 when it does not occur
IndexOf(toks, t) ==
  IF \E i \in 1..Len(toks) : toks[i] = t
  THEN CHOOSE i \in 1..Len(toks) : toks[i] = t /\ \A j \in 1..(i - 1) : toks[j] # t
  ELSE 0

\* "m,n" -> <<"m", "n">>; "" -> << >>
parse_symbols_ok(inner) ==
  \/ inner = << >>
  \/ /\ Len(inner) % 2 = 1
     /\ \A i \in 1..Len(inner) :
          IF i % 2 = 1 THEN inner[i] \notin Punctuation ELSE inner[i] = ","

parse_symbols(inner) == [i \in 1..((Len(inner) + 1) \div 2) |-> inner[2 * i - 1]]

\* "(m,n),(n,p)" -> << <<"m","n">>, <<"n","p">> >>, or ParseError
RECURSIVE parse_core_list(_)
parse_core_list(toks) ==
  LET j == IndexOf(toks, ")")
  IN IF toks = << >> \/ j = 0 THEN Raise("ParseError")
     ELSE IF toks[1] # "(" \/ ~parse_symbols_ok(SubSeq(toks, 2, j - 1)) THEN Raise("ParseError")
     ELSE LET syms == parse_symbols(SubSeq(toks, 2, j - 1))
              rest == SubSeq(toks, j + 1, Len(toks))
          IN IF rest = << >> THEN [kind |-> "core_list", dims |-> <<syms>>]
             ELSE IF rest[1] # "," THEN Raise("ParseError")
             ELSE LET more == parse_core_list(Tail(rest))
                  IN IF Raised(more) THEN more
                     ELSE [kind |-> "core_list", dims |-> <<syms>> \o more.dims]

\* section 4.1: the parsed Signature, or ParseError
parse_gufunc_signature(signature) ==
  LET a == IndexOf(signature, "-")
  IN IF a = 0 \/ a = Len(signature) THEN Raise("ParseError")
     ELSE IF signature[a + 1] # ">" THEN Raise("ParseError")
     ELSE LET ins == parse_core_list(SubSeq(signature, 1, a - 1))
              outs == parse_core_list(SubSeq(signature, a + 2, Len(signature)))
          IN IF Raised(ins) THEN ins
             ELSE IF Raised(outs) THEN outs
             ELSE IF Len(outs.dims) # 1 THEN Raise("ParseError")
             ELSE [kind |-> "signature", inputs |-> ins.dims, output |-> outs.dims[1]]

\* the distinct core-dimension symbols of the input arguments
symbols(inputs) == set(sum_lists(inputs))

gufunc_shape_bad(core, extra, binding) == extra \o [i \in 1..Len(core) |-> binding[core[1]]]

\* section 4.2: ShapeSpec = extra-dim sizes ++ core sizes looked up by symbol
gufunc_shape(core, extra, binding) == extra \o [i \in 1..Len(core) |-> binding[core[i]]]

\* section 4.3: the strategy gufunc_args returns, or the validation error
gufunc_args(signature, dtype, min_side, max_side, max_dims_extra) ==
  LET parsed == parse_gufunc_signature(signature)
  IN IF Raised(parsed) THEN parsed
     ELSE IF ~_check_valid_size_interval(min_side, Some(max_side), 0) THEN Raise("InvalidArgument")
     ELSE IF max_dims_extra < 0 THEN Raise("InvalidArgument")
     ELSE [kind |-> "gufunc_args", inputs |-> parsed.inputs, output |-> parsed.output,
           dtype |-> dtype, min_side |-> min_side, max_side |-> max_side,
           max_dims_extra |-> max_dims_extra]

\* tuples of arrays, one per shape in order
RECURSIVE array_tuples(_, _)
array_tuples(dtype, shapes) ==
  IF shapes = << >> THEN {<< >>}
  ELSE {<<x>> \o rest : x \in arrays_draws(arrays(dtype, Head(shapes))),
                         rest \in array_tuples(dtype, Tail(shapes))}

\* ------------------------------------------------------------------ state
VARIABLES
  op,     \* the constructor that was called
  args,   \* its arguments
  pc,     \* "call", "invalid", "built", "candidate", "retry", "names",
          \* "exhausted", "structure", "coords", "done", "error"
  S,      \* what the constructor returned: the strategy, or what it raised
  cur,    \* the strategy the running draw has reached (flatmap's inner one)
  cand,   \* the (vars_, dims) candidate the filter looks at
  pair,   \* the (vars_, dims) pair that passed the filter
  tries,  \* candidates the filter has rejected in this draw
  out     \* the drawn value

vars == <<op, args, pc, S, cur, cand, pair, tries, out>>

\* the constructor call, by name
Call(o, a) ==
  CASE o = "subset_lists" -> subset_lists(a.L, a.min_size, a.max_size)
    [] o = "xr_dim_lists" -> xr_dim_lists(a.min_dims, a.max_dims)
    [] o = "xr_var_lists" -> xr_var_lists(a.min_vars, a.max_vars)
    [] o = "vars_to_dims_dicts" ->
         vars_to_dims_dicts(a.min_vars, a.max_vars, a.min_dims, a.max_dims)
    [] o = "xr_coords" -> xr_coords(a.elements, a.min_side, a.max_side, a.unique)
    [] o = "simple_coords" -> simple_coords(a.min_side, a.max_side)
    [] o = "xr_coords_dicts" ->
         xr_coords_dicts(a.dims, a.elements, a.min_side, a.max_side, a.unique_coords, a.coords_st)
    [] o = "fixed_coords_dataarrays" -> fixed_coords_dataarrays(a.dims, a.coords, a.dtype)
    [] o = "fixed_dataarrays" ->
         fixed_dataarrays(a.dims, a.dtype, a.coords_elements, a.min_side, a.max_side, a.coords_st)
    [] o = "simple_dataarrays" -> simple_dataarrays(a.dims, a.dtype, a.min_side, a.max_side)
    [] o = "dataarrays" ->
         dataarrays(a.dtype, a.coords_elements, a.min_side, a.max_side, a.min_dims, a.max_dims)
    [] o = "fixed_coords_datasets" -> fixed_coords_datasets(a.vars_to_dims, a.coords, a.dtype)
    [] o = "fixed_datasets" ->
         fixed_datasets(a.vars_to_dims, a.dtype, a.coords_elements, a.min_side, a.max_side, a.coords_st)
    [] o = "simple_datasets" -> simple_datasets(a.vars_to_dims, a.dtype, a.min_side, a.max_side)
    [] o = "datasets" ->
         datasets(a.dtype, a.coords_elements, a.min_side, a.max_side,
                  a.min_vars, a.max_vars, a.min_dims, a.max_dims)
    [] o = "gufunc_args" ->
         gufunc_args(a.signature, a.dtype, a.min_side, a.max_side, a.max_dims_extra)

\* ---------------------------------------------------------------- actions
\* the constructor runs: its validation and all it evaluates eagerly
Construct ==
  /\ pc = "call" /\ op # "_get_all_dims"
  /\ S' = Call(op, args)
  /\ cur' = S'
  /\ pc' = IF Raised(S') THEN "invalid" ELSE "built"
  /\ UNCHANGED <<op, args, cand, pair, tries, out>>

\* a draw of lists(...) or of simple_coords' integers(...).map(range).map(list)
DrawList ==
  /\ pc = "built" /\ cur.kind \in {"lists", "simple_coords"}
  /\ out' \in coords_draws(cur)
  /\ pc' = "done"
  /\ UNCHANGED <<op, args, S, cur, cand, pair, tries>>

PairsOf(st) == IF st.kind = "datasets" THEN st.vars_to_dims.pairs ELSE st.pairs

\* tuples(xr_var_lists, xr_dim_lists) draws a candidate
DrawPair ==
  /\ pc \in {"built", "retry"} /\ cur.kind \in {"vars_to_dims_dicts", "datasets"}
  /\ \E vars_ \in lists_draws(PairsOf(cur).vars_st), dims \in lists_draws(PairsOf(cur).dims_st) :
       cand' = <<vars_, dims>>
  /\ pc' = "candidate"
  /\ UNCHANGED <<op, args, S, cur, pair, tries, out>>

\* .filter(no_overlap): the candidate passes
FilterAccept ==
  /\ pc = "candidate" /\ no_overlap(cand)
  /\ pair' = cand
  /\ pc' = "names"
  /\ UNCHANGED <<op, args, S, cur, cand, tries, out>>

FilterReject_bad ==
  /\ pc = "candidate" /\ ~no_overlap(cand)
  /\ cand' = None
  /\ pc' = "retry"
  /\ UNCHANGED <<op, args, S, cur, pair, tries, out>>

\* .filter(no_overlap): the candidate is dropped and another one is drawn,
\* until the runtime gives the example up
FilterReject ==
  /\ pc = "candidate" /\ ~no_overlap(cand)
  /\ cand' = None
  /\ tries' = tries + 1
  /\ pc' = IF tries' >= FilterTries THEN "exhausted" ELSE "retry"
  /\ UNCHANGED <<op, args, S, cur, pair, out>>

\* .flatmap(map_dict), and for datasets .flatmap(mapper)
MapDict ==
  /\ pc = "names"
  /\ LET v2d == IF cur.kind = "datasets" THEN cur.vars_to_dims ELSE cur
         D == map_dict(pair, v2d.min_dims, v2d.max_dims)
     IN IF Raised(D) THEN pc' = "error" /\ out' = D /\ cur' = cur
        ELSE \E V \in fixed_dictionaries_draws(D.C) :
               IF cur.kind = "vars_to_dims_dicts"
               THEN out' = V /\ pc' = "done" /\ cur' = cur
               ELSE /\ cur' = datasets_mapper(cur, V)
                    /\ pc' = IF Raised(cur') THEN "error" ELSE "structure"
                    /\ out' = out
  /\ UNCHANGED <<op, args, S, cand, pair, tries>>

\* dataarrays: xr_dim_lists(...).flatmap(mapper)
DrawDims ==
  /\ pc = "built" /\ cur.kind = "dataarrays"
  /\ \E D \in lists_draws(cur.dims_st) : cur' = dataarrays_mapper(cur, D)
  /\ pc' = IF Raised(cur') THEN "error" ELSE "structure"
  /\ UNCHANGED <<op, args, S, cand, pair, tries, out>>

\* a draw of xr_coords_dicts(...), and the flatmap that follows it
DrawCoords ==
  /\ pc \in {"built", "structure"}
  /\ cur.kind \in {"fixed_dictionaries", "fixed_datasets", "fixed_dataarrays"}
  /\ \E C \in fixed_dictionaries_draws(IF cur.kind = "fixed_dictionaries" THEN cur.C ELSE cur.coords_st.C) :
       CASE cur.kind = "fixed_dictionaries" ->
              out' = C /\ pc' = "done" /\ UNCHANGED <<cur, S>>
         [] cur.kind = "fixed_dataarrays" ->
              /\ cur' = fixed_coords_dataarrays(cur.dims, C, cur.dtype)
              /\ pc' = IF Raised(cur') THEN "error" ELSE "coords"
              /\ UNCHANGED <<out, S>>
         [] cur.kind = "fixed_datasets" ->
              /\ cur' = fixed_coords_datasets(cur.vars_to_dims, C, cur.dtype)
              /\ pc' = IF Raised(cur') THEN "error" ELSE "coords"
              /\ S' = IF S.kind = "datasets"
                      THEN [S EXCEPT !.dtype = after_lookups(@, Keys(cur.vars_to_dims))]
                      ELSE S
              /\ out' = out
  /\ UNCHANGED <<op, args, cand, pair, tries>>

\* arrays(...) are drawn and xr.DataArray / xr.Dataset assembles them
DrawValues ==
  /\ pc \in {"built", "coords"}
  /\ cur.kind \in {"fixed_coords_dataarrays", "fixed_coords_datasets"}
  /\ out' \in IF cur.kind = "fixed_coords_dataarrays" THEN fixed_coords_dataarrays_draws(cur)
              ELSE fixed_coords_datasets_draws(cur)
  /\ pc' = "done"
  /\ UNCHANGED <<op, args, S, cur, cand, pair, tries>>

\* the test runner asks the same strategy object for its next example
NewExample ==
  /\ pc \in {"done", "exhausted"}
  /\ pc' = "built"
  /\ cur' = S
  /\ cand' = None /\ pair' = None /\ tries' = 0 /\ out' = None
  /\ UNCHANGED <<op, args, S>>

Start(o, A) ==
  /\ op = o /\ args \in A
  /\ pc = "call" /\ S = None /\ cur = None /\ cand = None /\ pair = None
  /\ tries = 0 /\ out = None

\* ----------------------------------------------- subset_lists on its own
SizeMins == -1..(NumText + 1)
SizeMaxs == {None} \cup {Some(n) : n \in -1..(NumText + 1)}

InitSubset ==
  Start("subset_lists",
        [L : SeqsUpTo(_hashable, NumText + 1), min_size : SizeMins, max_size : SizeMaxs])

NextSubset == Construct \/ DrawList
SpecSubset == InitSubset /\ [][NextSubset]_vars

\* ------------------------------------------------- the Dataset strategies
\* Caller-supplied arguments, as the docstrings describe them: a mapping of
\* up to two variables to duplicate-free dimension lists, no variable named
\* like a dimension.
InputVars == {-1, 0, 1}
InputDims == {1, 2}

VarsToDimsInputs ==
  {V \in UNION {fixed_dictionaries_draws(
                  [i \in 1..Len(vs) |-> <<vs[i], lists(InputDims, 0, Some(2), TRUE)>>]) :
                vs \in lists_draws(lists(InputVars, 0, Some(2), TRUE))} :
     set(Keys(V)) \cap set(sum_lists(Values(V))) = {}}

\* caller-supplied coordinates: any list, repeated values allowed
CoordLists == {<< >>, <<0>>, <<1, 0>>, <<1, 1>>, <<0, 1, 2>>}
CoordsInputs == {<< >>} \cup {<< <<1, c>> >> : c \in CoordLists}
                \cup {<< <<2, c>>, <<1, d>> >> : c \in {<<0>>, <<1, 0>>}, d \in CoordLists}

\* dtype: None, or a dict giving every variable a type of its own
DtypeInputs(V) ==
  {None, dict([i \in 1..Len(V) |-> <<V[i][1], IF i = 1 THEN "float" ELSE "bool">>])}

\* per-dimension overrides: none, or dimension 1 drawn from lists(just(0), 3, 3)
CoordsStInputs == {<< >>, << <<1, lists({0}, 3, Some(3), FALSE)>> >>}

CountInputs == {<<0, Some(2)>>, <<1, None>>, <<1, Some(1)>>, <<2, Some(DEFAULT_DIMS)>>}
SideInputs == {<<0, Some(1)>>, <<1, Some(2)>>, <<-1, Some(1)>>, <<2, Some(1)>>}

Init ==
  \/ \E V \in VarsToDimsInputs :
       Start("fixed_coords_datasets",
             [vars_to_dims : {V}, coords : CoordsInputs, dtype : DtypeInputs(V)])
  \/ \E V \in VarsToDimsInputs, sd \in SideInputs :
       Start("fixed_datasets",
             [vars_to_dims : {V}, dtype : DtypeInputs(V), coords_elements : {None},
              min_side : {sd[1]}, max_side : {sd[2]}, coords_st : CoordsStInputs])
  \/ \E V \in VarsToDimsInputs, sd \in SideInputs :
       Start("simple_datasets",
             [vars_to_dims : {V}, dtype : DtypeInputs(V), min_side : {sd[1]}, max_side : {sd[2]}])
  \/ \E sd \in SideInputs :
       Start("fixed_dataarrays",
             [dims : {<<1>>, <<2, 1>>}, dtype : {"float"}, coords_elements : {None},
              min_side : {sd[1]}, max_side : {sd[2]}, coords_st : CoordsStInputs])
  \/ \E sd \in SideInputs :
       Start("simple_dataarrays",
             [dims : {<<1>>, <<2, 1>>}, dtype : {"float"},
              min_side : {sd[1]}, max_side : {sd[2]}])
  \/ \E vs \in CountInputs, ds \in CountInputs :
       Start("vars_to_dims_dicts",
             [min_vars : {vs[1]}, max_vars : {vs[2]}, min_dims : {ds[1]}, max_dims : {ds[2]}])
  \/ \E sd \in SideInputs, vs \in {<<0, Some(2)>>, <<1, Some(1)>>}, ds \in {<<0, Some(2)>>, <<1, Some(1)>>} :
       Start("datasets",
             [dtype : {"float"}, coords_elements : {None},
              min_side : {sd[1]}, max_side : {sd[2]},
              min_vars : {vs[1]}, max_vars : {vs[2]},
              min_dims : {ds[1]}, max_dims : {ds[2]}])

Next ==
  \/ Construct
  \/ DrawPair
  \/ FilterAccept
  \/ FilterReject
  \/ MapDict
  \/ DrawCoords
  \/ DrawValues

Spec == Init /\ [][Next]_vars

\* ---------------------------------------------- _get_all_dims on its own
\* any mapping: up to two keys, lists of up to MaxLen names, repeats allowed
InitAllDims ==
  \E vs \in lists_draws(lists(InputVars, 0, Some(2), TRUE)) :
    Start("_get_all_dims",
          [vars_to_dims : fixed_dictionaries_draws(
             [i \in 1..Len(vs) |-> <<vs[i], lists(1..(NumText + 1), 0, None, FALSE)>>])])

ApplyAllDims ==
  /\ pc = "call" /\ op = "_get_all_dims"
  /\ out' = _get_all_dims(args.vars_to_dims)
  /\ pc' = "done"
  /\ UNCHANGED <<op, args, S, cur, cand, pair, tries>>

SpecAllDims == InitAllDims /\ [][ApplyAllDims]_vars

\* ------------------------------------------ every constructor's bounds
\* Every (min, max) with min in -1..2 and max None or in -1..2, valid or not.
BoundPairs == {<<mn, mx>> : mn \in -1..2, mx \in {None} \cup {Some(n) : n \in -1..2}}
OtherPair == <<0, Some(1)>>

InvalidPair(p) == p[1] < 0 \/ (~IsNone(p[2]) /\ Val(p[2]) < p[1])

\* two or three bound pairs: one of them varies, or all are the same bad one
Pairs2 == {<<p, OtherPair>> : p \in BoundPairs} \cup {<<OtherPair, p>> : p \in BoundPairs}
          \cup {<<p, p>> : p \in {q \in BoundPairs : InvalidPair(q)}}
Pairs3 == {<<p, OtherPair, OtherPair>> : p \in BoundPairs}
          \cup {<<OtherPair, p, OtherPair>> : p \in BoundPairs}
          \cup {<<OtherPair, OtherPair, p>> : p \in BoundPairs}
          \cup {<<p, p, p>> : p \in {q \in BoundPairs : InvalidPair(q)}}

DimsInputs == {<<1>>, <<2, 1>>}
SmallVarsToDims == {<< <<0, <<2, 1>> >> >>, << <<-1, <<1>> >>, <<0, << >> >> >>}

InitValid ==
  \/ \E p \in BoundPairs :
       \/ Start("subset_lists", [L : {<<1, 0, 1>>}, min_size : {p[1]}, max_size : {p[2]}])
       \/ Start("xr_dim_lists", [min_dims : {p[1]}, max_dims : {p[2]}])
       \/ Start("xr_var_lists", [min_vars : {p[1]}, max_vars : {p[2]}])
       \/ Start("xr_coords", [elements : {None}, min_side : {p[1]}, max_side : {p[2]},
                              unique : BOOLEAN])
       \/ Start("simple_coords", [min_side : {p[1]}, max_side : {p[2]}])
       \/ Start("xr_coords_dicts",
                [dims : DimsInputs, elements : {None}, min_side : {p[1]}, max_side : {p[2]},
                 unique_coords : {TRUE}, coords_st : {<< >>}])
       \/ Start("fixed_dataarrays",
                [dims : DimsInputs, dtype : {"float"}, coords_elements : {None},
                 min_side : {p[1]}, max_side : {p[2]}, coords_st : {<< >>}])
       \/ Start("simple_dataarrays",
                [dims : DimsInputs, dtype : {"float"}, min_side : {p[1]}, max_side : {p[2]}])
       \/ Start("fixed_datasets",
                [vars_to_dims : SmallVarsToDims, dtype : {None}, coords_elements : {None},
                 min_side : {p[1]}, max_side : {p[2]}, coords_st : {<< >>}])
       \/ Start("simple_datasets",
                [vars_to_dims : SmallVarsToDims, dtype : {None},
                 min_side : {p[1]}, max_side : {p[2]}])
  \/ \E q \in Pairs2 :
       \/ Start("vars_to_dims_dicts",
                [min_vars : {q[1][1]}, max_vars : {q[1][2]},
                 min_dims : {q[2][1]}, max_dims : {q[2][2]}])
       \/ Start("dataarrays",
                [dtype : {"float"}, coords_elements : {None},
                 min_side : {q[1][1]}, max_side : {q[1][2]},
                 min_dims : {q[2][1]}, max_dims : {q[2][2]}])
  \/ \E q \in Pairs3 :
       Start("datasets",
             [dtype : {"float"}, coords_elements : {None},
              min_side : {q[1][1]}, max_side : {q[1][2]},
              min_vars : {q[2][1]}, max_vars : {q[2][2]},
              min_dims : {q[3][1]}, max_dims : {q[3][2]}])

NextValid ==
  \/ Construct
  \/ DrawList
  \/ DrawPair
  \/ FilterAccept
  \/ FilterReject
  \/ MapDict
  \/ DrawDims
  \/ DrawCoords
  \/ DrawValues

SpecValid == InitValid /\ [][NextValid]_vars

\* ------------------------------------------ the coordinate strategies
\* per-dimension overrides given to xr_coords_dicts: none, a fixed-length
\* list for dimension 1, simple coordinates for dimension 2 and a strategy
\* for a dimension that may not be asked for
OverrideInputs ==
  {<< >>,
   << <<1, lists({0}, 3, Some(3), FALSE)>> >>,
   << <<2, simple_coords(0, Some(3))>>, <<1, lists({0}, 3, Some(3), FALSE)>> >>}

InitCoords ==
  \/ \E p \in BoundPairs : Start("simple_coords", [min_side : {p[1]}, max_side : {p[2]}])
  \/ \E p \in BoundPairs :
       Start("xr_coords", [elements : {None, Some({0})}, min_side : {p[1]}, max_side : {p[2]},
                           unique : BOOLEAN])
  \/ \E p \in {<<0, Some(1)>>, <<1, Some(2)>>, <<1, None>>, <<2, Some(1)>>} :
       Start("xr_coords_dicts",
             [dims : {<< >>, <<1>>, <<2, 1>>}, elements : {None, Some({0, 1, 2})},
              min_side : {p[1]}, max_side : {p[2]},
              unique_coords : BOOLEAN, coords_st : OverrideInputs])

NextCoords == Construct \/ DrawList \/ DrawCoords
SpecCoords == InitCoords /\ [][NextCoords]_vars

\* ------------------------------------- the joint name generator on its own
\* vars_to_dims_dicts runs one draw to its end: a started draw is not abandoned
\* half-way, so each enabled step is eventually taken.
PairCounts == {<<0, Some(2)>>, <<1, None>>, <<1, Some(1)>>, <<2, Some(2)>>}

InitPairs ==
  \E vs \in PairCounts, ds \in PairCounts :
    Start("vars_to_dims_dicts",
          [min_vars : {vs[1]}, max_vars : {vs[2]}, min_dims : {ds[1]}, max_dims : {ds[2]}])

NextPairs == Construct \/ DrawPair \/ FilterAccept \/ FilterReject \/ MapDict
SpecPairs ==
  /\ InitPairs /\ [][NextPairs]_vars
  /\ WF_vars(DrawPair) /\ WF_vars(FilterAccept) /\ WF_vars(FilterReject)

\* ------------------------------------- one strategy, example after example
InitExamples ==
  \/ \E vs \in {<<1, Some(1)>>, <<0, Some(2)>>} :
       Start("datasets",
             [dtype : {"float"}, coords_elements : {None},
              min_side : {0}, max_side : {Some(1)},
              min_vars : {vs[1]}, max_vars : {vs[2]},
              min_dims : {0}, max_dims : {Some(1)}])
  \/ Start("fixed_coords_datasets",
           [vars_to_dims : SmallVarsToDims,
            coords : {<< <<2, <<0>> >>, <<1, <<1, 0>> >> >>}, dtype : {None}])

NextExamples ==
  \/ Construct
  \/ DrawPair
  \/ FilterAccept
  \/ FilterReject
  \/ MapDict
  \/ DrawCoords
  \/ DrawValues
  \/ NewExample

SpecExamples == InitExamples /\ [][NextExamples]_vars

\* ------------------------------------------------------------ gufunc_args
SigMatmul == <<"(", "m", ",", "n", ")", ",", "(", "n", ",", "p", ")", "-", ">", "(", "m", ",", "p", ")">>
SigInner == <<"(", "n", ")", ",", "(", "n", ")", "-", ">", "(", ")">>
SigScalar == <<"(", ")", ",", "(", ")", "-", ">", "(", ")">>
SigTrace == <<"(", "m", ",", "m", ")", "-", ">", "(", ")">>
SigBroken == <<"(", "m", ",", "n", "-", ">", "(", "m", ")">>
Signatures == {SigMatmul, SigInner, SigScalar, SigTrace, SigBroken}

InitGufunc ==
  Start("gufunc_args",
        [signature : Signatures, dtype : {"float"},
         min_side : {0, 1}, max_side : {0, 2}, max_dims_extra : {-1, 0, 1}])

\* section 4.2: one size per distinct symbol, and per argument its own extra
\* leading dimensions
ResolveShapes ==
  /\ pc = "built" /\ cur.kind = "gufunc_args"
  /\ \E binding \in [symbols(cur.inputs) -> cur.min_side..cur.max_side],
        extras \in [1..Len(cur.inputs) ->
                      SeqsUpTo(cur.min_side..cur.max_side, cur.max_dims_extra)] :
       cur' = [kind |-> "gufunc_shapes", dtype |-> cur.dtype, binding |-> binding,
               shapes |-> [k \in 1..Len(cur.inputs) |->
                             gufunc_shape(cur.inputs[k], extras[k], binding)]]
  /\ pc' = "shapes"
  /\ UNCHANGED <<op, args, S, cand, pair, tries, out>>

\* section 4.3: one array per argument, of its resolved shape
DrawArrays ==
  /\ pc = "shapes" /\ cur.kind = "gufunc_shapes"
  /\ out' \in array_tuples(cur.dtype, cur.shapes)
  /\ pc' = "done"
  /\ UNCHANGED <<op, args, S, cur, cand, pair, tries>>

NextGufunc == Construct \/ ResolveShapes \/ DrawArrays
SpecGufunc == InitGufunc /\ [][NextGufunc]_vars

\* ================================================================ claims

\* the claim's precondition on a subset_lists call
SubsetPre ==
  /\ 0 <= args.min_size
  /\ IsNone(args.max_size) \/ args.min_size <= Val(args.max_size)
  /\ args.min_size <= uniq_len(args.L)

\* C3: every list drawn from subset_lists(L, min_size, max_size) with
\* 0 <= min_size <= max_size (or max_size None) and min_size <= #unique(L) is
\* duplicate-free, has min_size <= len <= max_size, and is a subset of L.
C3_SubsetListsContract ==
  (op = "subset_lists" /\ pc = "done" /\ SubsetPre) =>
    /\ Unique(out)
    /\ args.min_size <= Len(out)
    /\ IsNone(args.max_size) \/ Len(out) <= Val(args.max_size)
    /\ Range(out) \subseteq Range(args.L)

C3_Witness ==
  /\ op = "subset_lists" /\ pc = "done" /\ SubsetPre
  /\ Len(args.L) = 3 /\ uniq_len(args.L) = 2 /\ args.min_size = 1
  /\ args.max_size = Some(3) /\ Len(out) = 2

\* C4 as stated: with L empty every bound pair 0 <= min_size <= max_size (or
\* max_size None) builds a strategy, and every draw is [].
C4_EmptyAnyBounds ==
  (op = "subset_lists" /\ args.L = << >> /\ pc # "call"
     /\ 0 <= args.min_size
     /\ (IsNone(args.max_size) \/ args.min_size <= Val(args.max_size))) =>
    /\ pc \in {"built", "done"}
    /\ pc = "done" => out = << >>

\* C4 amended: with L empty and min_size = 0 every draw is [], whatever
\* max_size >= 0 or None is; with min_size > 0 the constructor raises.
C4_EmptyMinZero ==
  (op = "subset_lists" /\ args.L = << >> /\ pc # "call") =>
    /\ (args.min_size = 0 /\ (IsNone(args.max_size) \/ 0 <= Val(args.max_size)))
         => pc \in {"built", "done"}
    /\ pc = "done" => out = << >> /\ args.min_size = 0
    /\ args.min_size > 0 => pc = "invalid"

C4_Witness ==
  /\ op = "subset_lists" /\ args.L = << >> /\ pc = "done"
  /\ args.max_size = Some(2) /\ out = << >>

\* C6: min_size > #unique(L) fails at construction; max_size None or above
\* #unique(L) is no error and the strategy is built with max_size = #unique(L).
C6_MinFailsMaxClamped ==
  (op = "subset_lists" /\ pc # "call") =>
    /\ args.min_size > uniq_len(args.L) => pc = "invalid" /\ Raised(S) /\ out = None
    /\ (SubsetPre /\ (IsNone(args.max_size) \/ Val(args.max_size) > uniq_len(args.L)))
         => pc \in {"built", "done"} /\ S.max_size = Some(uniq_len(args.L))

C6_Witness ==
  /\ op = "subset_lists" /\ pc = "done" /\ uniq_len(args.L) = 1 /\ Len(args.L) = 2
  /\ args.max_size = Some(3) /\ S.max_size = Some(1) /\ Len(out) = 1

DatasetOps == {"datasets", "fixed_datasets", "simple_datasets", "fixed_coords_datasets"}

\* C1: in every drawn dataset, every variable's array shape is exactly
\* [len(coords[d]) for d in the variable's dims], in the variable's own order.
C1_CoordsMatchShape ==
  (op \in DatasetOps /\ pc = "done") =>
    \A i \in 1..Len(out.data_vars) :
      LET da == out.data_vars[i][2]
      IN /\ Len(da.data.shape) = Len(da.dims)
         /\ \A k \in 1..Len(da.dims) :
              /\ HasKey(out.coords, da.dims[k])
              /\ da.data.shape[k] = Len(Get(out.coords, da.dims[k]))

C1_Witness ==
  /\ op = "datasets" /\ pc = "done"
  /\ \E i \in 1..Len(out.data_vars) :
       /\ out.data_vars[i][2].dims = <<2, 1>>
       /\ out.data_vars[i][2].data.shape = <<1, 2>>

\* C2: a (vars, dims) pair that passed the filter shares no name, so no drawn
\* mapping or dataset has a name that is both a variable and a dimension; a
\* rejected candidate is dropped, never handed to the dependent draws.
C2_NoNameCollision ==
  /\ pair # None => set(pair[1]) \cap set(pair[2]) = {}
  /\ pc \in {"retry", "exhausted"} => cand = None
  /\ pc \in {"names", "structure", "coords", "done"} /\ op \in {"datasets", "vars_to_dims_dicts"}
       => pair = cand
  /\ (op = "vars_to_dims_dicts" /\ pc = "done") =>
       set(Keys(out)) \cap set(sum_lists(Values(out))) = {}
  /\ (op = "datasets" /\ pc = "done") =>
       \A i, j \in 1..Len(out.data_vars) :
         /\ out.data_vars[i][1] \notin set(out.data_vars[j][2].dims)
         /\ out.data_vars[i][1] \notin set(Keys(out.coords))

C2_Witness ==
  /\ op = "datasets" /\ pc = "done" /\ tries > 0
  /\ Len(out.data_vars) = 2
  /\ \E i \in 1..2 : out.data_vars[i][1] = 1 /\ out.data_vars[i][2].dims = <<2>>

\* C7: fixed_coords_datasets gives back the caller's variables in key order,
\* each with its own dims in order, and the caller's coordinate values; the
\* shapes follow from them, only the element values are drawn.
C7_FixedCoordsRoundTrip ==
  (op = "fixed_coords_datasets" /\ pc = "done") =>
    /\ Keys(out.data_vars) = Keys(args.vars_to_dims)
    /\ out.coords = args.coords
    /\ \A i \in 1..Len(args.vars_to_dims) :
         LET da == out.data_vars[i][2]
             dd == args.vars_to_dims[i][2]
         IN /\ da.dims = dd
            /\ da.data.shape = [k \in 1..Len(dd) |-> Len(Get(args.coords, dd[k]))]
            /\ \A k \in 1..Len(dd) : Get(da.coords, dd[k]) = Get(args.coords, dd[k])

C7_Witness ==
  /\ op = "fixed_coords_datasets" /\ pc = "done"
  /\ args.vars_to_dims = << <<-1, <<2, 1>> >>, <<0, <<2>> >> >>
  /\ args.coords = << <<2, <<1, 0>> >>, <<1, <<0, 1, 2>> >> >>
  /\ out.data_vars[1][2].data.shape = <<2, 3>>
  /\ out.data_vars[2][2].data.shape = <<2>>

\* C8: a mapping drawn from vars_to_dims_dicts has between min_vars and
\* max_vars variables, and every variable's dimension list is duplicate-free,
\* taken from the one pool drawn with the variable names, and between
\* min_dims and max_dims long.
C8_VarsToDimsBounds ==
  (op = "vars_to_dims_dicts" /\ pc = "done") =>
    /\ args.min_vars <= Len(out)
    /\ IsNone(args.max_vars) \/ Len(out) <= Val(args.max_vars)
    /\ Keys(out) = pair[1]
    /\ \A i \in 1..Len(out) :
         /\ Unique(out[i][2])
         /\ set(out[i][2]) \subseteq set(pair[2])
         /\ args.min_dims <= Len(out[i][2])
         /\ IsNone(args.max_dims) \/ Len(out[i][2]) <= Val(args.max_dims)

C8_Witness ==
  /\ op = "vars_to_dims_dicts" /\ pc = "done"
  /\ args.min_dims = 1 /\ IsNone(args.max_dims)
  /\ Len(out) = 2 /\ Len(pair[2]) = 2
  /\ Len(out[1][2]) = 1 /\ Len(out[2][2]) = 2

\* C9: _get_all_dims returns an ascending list without repeats whose elements
\* are exactly the names that occur in some variable's dimension list.
C9_AllDimsSortedUnion ==
  (op = "_get_all_dims" /\ pc = "done") =>
    /\ \A i \in 1..(Len(out) - 1) : out[i] < out[i + 1]
    /\ set(out) = UNION {set(args.vars_to_dims[i][2]) : i \in 1..Len(args.vars_to_dims)}

C9_Witness ==
  /\ op = "_get_all_dims" /\ pc = "done"
  /\ Len(args.vars_to_dims) = 2
  /\ args.vars_to_dims[1][2] = <<3, 3>> /\ args.vars_to_dims[2][2] = <<2, 1>>
  /\ out = <<1, 2, 3>>

\* the (min, max) pairs a constructor call was given
BoundPairsOf(o, a) ==
  CASE o = "subset_lists" -> {<<a.min_size, a.max_size>>}
    [] o = "xr_dim_lists" -> {<<a.min_dims, a.max_dims>>}
    [] o = "xr_var_lists" -> {<<a.min_vars, a.max_vars>>}
    [] o = "vars_to_dims_dicts" -> {<<a.min_vars, a.max_vars>>, <<a.min_dims, a.max_dims>>}
    [] o = "dataarrays" -> {<<a.min_side, a.max_side>>, <<a.min_dims, a.max_dims>>}
    [] o = "datasets" -> {<<a.min_side, a.max_side>>, <<a.min_vars, a.max_vars>>,
                          <<a.min_dims, a.max_dims>>}
    [] OTHER -> {<<a.min_side, a.max_side>>}

\* C5: a constructor given a pair with min < 0, or max not None and max < min,
\* raises InvalidArgument in the call itself: no strategy is returned (no
\* clamped one either) and nothing has been drawn.
C5_InvalidBoundsRaiseAtCall ==
  (pc # "call" /\ \E p \in BoundPairsOf(op, args) : InvalidPair(p)) =>
    /\ pc = "invalid"
    /\ Raised(S) /\ S.exc = "InvalidArgument"
    /\ cand = None /\ pair = None /\ tries = 0 /\ out = None

C5_Witness ==
  /\ op = "datasets" /\ pc = "invalid"
  /\ args.min_side = 0 /\ args.max_side = Some(1)
  /\ args.min_vars = 0 /\ args.max_vars = Some(1)
  /\ args.min_dims = 2 /\ args.max_dims = Some(1)

\* the number of arguments a signature string declares before its arrow
NumInputs(signature) ==
  Cardinality({i \in 1..(IndexOf(signature, "-") - 1) : signature[i] = "("})

\* C10: a tuple drawn from gufunc_args has one array per input argument, in
\* order, and wherever two core positions carry the same symbol the two axes
\* have the same length (core axes are the trailing ones).
C10_SharedSymbolsAgree ==
  (op = "gufunc_args" /\ pc = "done") =>
    /\ Len(out) = NumInputs(args.signature)
    /\ \A a, b \in 1..Len(out) :
         /\ Len(out[a].shape) >= Len(S.inputs[a])
         /\ \A i \in 1..Len(S.inputs[a]), j \in 1..Len(S.inputs[b]) :
              S.inputs[a][i] = S.inputs[b][j] =>
                out[a].shape[Len(out[a].shape) - Len(S.inputs[a]) + i]
                  = out[b].shape[Len(out[b].shape) - Len(S.inputs[b]) + j]

C10_Witness ==
  /\ op = "gufunc_args" /\ pc = "done" /\ args.signature = SigMatmul
  /\ out[1].shape = <<1, 2>> /\ out[2].shape = <<0, 2, 1>>

\* what xr.DataArray(data, coords, dims) accepts: no dimension twice, a
\* coordinate for every dimension, each as long as the array's axis
AssemblesArray(da) ==
  /\ Unique(da.dims)
  /\ Len(da.data.shape) = Len(da.dims)
  /\ \A k \in 1..Len(da.dims) :
       /\ HasKey(da.coords, da.dims[k])
       /\ Len(Get(da.coords, da.dims[k])) = da.data.shape[k]

\* what xr.Dataset(data, coords) accepts on top of that
AssemblesDataset(ds) ==
  /\ Unique(Keys(ds.data_vars))
  /\ \A i \in 1..Len(ds.data_vars) :
       /\ AssemblesArray(ds.data_vars[i][2])
       /\ ds.data_vars[i][1] \notin set(Keys(ds.coords))
       /\ \A j \in 1..Len(ds.data_vars) :
            ds.data_vars[i][1] \notin set(ds.data_vars[j][2].dims)
       /\ \A k \in 1..Len(ds.data_vars[i][2].dims) :
            LET d == ds.data_vars[i][2].dims[k]
            IN HasKey(ds.coords, d)
               /\ Len(Get(ds.coords, d)) = ds.data_vars[i][2].data.shape[k]

\* C11: datasets(...) and dataarrays(...) with valid bounds never raise during
\* a draw, and what reaches xr.Dataset / xr.DataArray has no variable named
\* like a dimension, no dimension twice in one array, a coordinate for every
\* dimension, and coordinate lengths equal to the axis lengths.
C11_AssemblyNeverFails ==
  (op \in {"datasets", "dataarrays"}) =>
    /\ pc # "error"
    /\ (pc = "done" /\ op = "dataarrays") => AssemblesArray(out)
    /\ (pc = "done" /\ op = "datasets") => AssemblesDataset(out)

C11_Witness ==
  /\ op = "dataarrays" /\ pc = "done"
  /\ out.dims = <<2, 1>> /\ out.data.shape = <<1, 0>>

\* C12: a mapping drawn from xr_coords_dicts has the keys of dims in the order
\* of dims; a dimension with an override in coords_st gets a value of that
\* override strategy, any other a list of the given elements with
\* min_side <= length <= max_side, duplicate-free when unique_coords is set.
C12_CoordsDictPerDimension ==
  (op = "xr_coords_dicts" /\ pc = "done") =>
    /\ Keys(out) = args.dims
    /\ \A i \in 1..Len(out) :
         LET d == out[i][1]
             L == out[i][2]
         IN IF HasKey(args.coords_st, d)
            THEN L \in coords_draws(Get(args.coords_st, d))
            ELSE /\ args.min_side <= Len(L)
                 /\ IsNone(args.max_side) \/ Len(L) <= Val(args.max_side)
                 /\ args.unique_coords => Unique(L)
                 /\ set(L) \subseteq (IF IsNone(args.elements) THEN CoordVals ELSE Val(args.elements))

C12_Witness ==
  /\ op = "xr_coords_dicts" /\ pc = "done"
  /\ args.dims = <<2, 1>> /\ Len(args.coords_st) = 1 /\ args.unique_coords
  /\ args.min_side = 1 /\ args.max_side = Some(2)
  /\ out = << <<2, <<2, 0>> >>, <<1, <<0, 0, 0>> >> >>

\* C14: a list drawn from simple_coords(min_side, max_side) is
\* [0, 1, ..., n-1] with min_side <= n <= max_side, so it has no repeats.
C14_SimpleCoordsAreRange ==
  (op = "simple_coords" /\ pc = "done") =>
    /\ out = [i \in 1..Len(out) |-> i - 1]
    /\ args.min_side <= Len(out)
    /\ IsNone(args.max_side) \/ Len(out) <= Val(args.max_side)
    /\ Unique(out)

C14_Witness ==
  /\ op = "simple_coords" /\ pc = "done"
  /\ args.min_side = 1 /\ args.max_side = Some(2) /\ out = <<0, 1>>

\* the coordinates of a drawn DataArray or Dataset
CoordsOf(o) == o.coords

\* C13 as stated: in every container drawn from fixed_dataarrays or
\* fixed_datasets, every dimension's coordinate list, overridden through
\* coords_st or not, has min_side <= length <= max_side.
C13_AllSidesBounded ==
  (op \in {"fixed_dataarrays", "fixed_datasets"} /\ pc = "done") =>
    \A i \in 1..Len(CoordsOf(out)) :
      /\ args.min_side <= Len(CoordsOf(out)[i][2])
      /\ IsNone(args.max_side) \/ Len(CoordsOf(out)[i][2]) <= Val(args.max_side)

\* C13 amended: the bounds hold for every dimension that has no override in
\* coords_st; an overridden dimension gets whatever its override strategy
\* draws, whatever min_side and max_side are.
C13_DefaultSidesBounded ==
  (op \in {"fixed_dataarrays", "fixed_datasets"} /\ pc = "done") =>
    \A i \in 1..Len(CoordsOf(out)) :
      LET d == CoordsOf(out)[i][1]
          L == CoordsOf(out)[i][2]
      IN IF HasKey(args.coords_st, d)
         THEN L \in coords_draws(Get(args.coords_st, d))
         ELSE /\ args.min_side <= Len(L)
              /\ IsNone(args.max_side) \/ Len(L) <= Val(args.max_side)

C13_Witness ==
  /\ op = "fixed_datasets" /\ pc = "done"
  /\ args.min_side = 1 /\ args.max_side = Some(2) /\ HasKey(args.coords_st, 1)
  /\ CoordsOf(out) = << <<1, <<0, 0, 0>> >>, <<2, <<0, 1>> >> >>

\* C15: in every container drawn from simple_dataarrays or simple_datasets the
\* coordinates are those of all dimensions (for datasets the sorted union of
\* the variables' lists), each exactly [0, ..., n-1] with the caller's
\* min_side <= n <= max_side.
C15_SimpleSidesBounded ==
  (op \in {"simple_dataarrays", "simple_datasets"} /\ pc = "done") =>
    /\ Keys(CoordsOf(out)) = IF op = "simple_datasets" THEN _get_all_dims(args.vars_to_dims)
                             ELSE args.dims
    /\ \A i \in 1..Len(CoordsOf(out)) :
         LET L == CoordsOf(out)[i][2]
         IN /\ L = [k \in 1..Len(L) |-> k - 1]
            /\ args.min_side <= Len(L)
            /\ IsNone(args.max_side) \/ Len(L) <= Val(args.max_side)

C15_Witness ==
  /\ op = "simple_datasets" /\ pc = "done"
  /\ args.min_side = 1 /\ args.max_side = Some(2)
  /\ CoordsOf(out) = << <<1, <<0, 1>> >>, <<2, <<0>> >> >>

\* C16: the filter looks at no more than FilterTries candidates in one draw,
\* and every draw that started either gets a disjoint (vars, dims) pair or
\* ends as exhausted: it never goes on retrying.
C16_FilterTerminates ==
  /\ [](tries <= FilterTries /\ (pc = "retry" => tries < FilterTries))
  /\ (pc = "built") ~> ((pair # None /\ no_overlap(pair)) \/ pc = "exhausted")

C16_Witness ==
  /\ op = "vars_to_dims_dicts" /\ pc = "exhausted" /\ tries = FilterTries /\ pair = None

\* C17: every variable of a drawn dataset has the element dtype asked for:
\* the default int when dtype is None, the one scalar dtype given to
\* datasets, and dtype[v] for variable v when a mapping is given.
C17_VariableDtypes ==
  (op \in DatasetOps /\ pc = "done") =>
    \A i \in 1..Len(out.data_vars) :
      LET v == out.data_vars[i][1]
          t == out.data_vars[i][2].data.dtype
      IN IF op = "datasets" THEN t = args.dtype
         ELSE IF IsNone(args.dtype) THEN t = "int"
         ELSE t = Get(args.dtype.items, v)

C17_Witness ==
  /\ op = "fixed_datasets" /\ pc = "done" /\ ~IsNone(args.dtype)
  /\ Len(out.data_vars) = 2
  /\ out.data_vars[1][2].data.dtype = "float"
  /\ out.data_vars[2][2].data.dtype = "bool"

\* the steps one example of datasets(...) can take, as <<pc, pc'>>
StageOrder ==
  {<<"call", "built">>, <<"call", "invalid">>,
   <<"built", "candidate">>, <<"retry", "candidate">>,
   <<"candidate", "retry">>, <<"candidate", "exhausted">>, <<"candidate", "names">>,
   <<"names", "structure">>, <<"structure", "coords">>, <<"coords", "done">>}

\* the names in the dimension lists of the variables of a fixed_coords_datasets
DimsUsed(C) == UNION {set(C[i][2].dims) : i \in 1..Len(C)}

\* C18: an example of datasets(...) goes Names -> Structure -> Coordinates ->
\* Values, one step each and never back (only the filter redraws names, inside
\* the first stage); the structure has the variables of the names stage and
\* dimensions from its pool, the coordinates are drawn for exactly the sorted
\* union of the structure's dimensions, and the shapes and the assembled
\* dataset come from those coordinates.
C18_StagesInOrder ==
  /\ [][op = "datasets" => <<pc, pc'>> \in StageOrder]_vars
  /\ []((op = "datasets" /\ pc = "structure") =>
          /\ cur.kind = "fixed_datasets"
          /\ Keys(cur.vars_to_dims) = pair[1]
          /\ \A i \in 1..Len(cur.vars_to_dims) : set(cur.vars_to_dims[i][2]) \subseteq set(pair[2])
          /\ set(Keys(cur.coords_st.C)) =
               UNION {set(cur.vars_to_dims[i][2]) : i \in 1..Len(cur.vars_to_dims)}
          /\ \A i \in 1..(Len(cur.coords_st.C) - 1) : cur.coords_st.C[i][1] < cur.coords_st.C[i + 1][1]
          /\ out = None)
  /\ []((op = "datasets" /\ pc = "coords") =>
          /\ cur.kind = "fixed_coords_datasets"
          /\ Keys(cur.data_st) = pair[1]
          /\ set(Keys(cur.coords)) = DimsUsed(cur.data_st)
          /\ \A i \in 1..Len(cur.data_st) :
               cur.data_st[i][2].data_st.shape =
                 [k \in 1..Len(cur.data_st[i][2].dims) |->
                    Len(Get(cur.coords, cur.data_st[i][2].dims[k]))]
          /\ out = None)
  /\ []((op = "datasets" /\ pc = "done") =>
          /\ out.coords = cur.coords
          /\ \A i \in 1..Len(out.data_vars) :
               out.data_vars[i][2].data.shape = cur.data_st[i][2].data_st.shape)

C18_Witness ==
  /\ op = "datasets" /\ pc = "done" /\ tries = 1
  /\ Keys(out.coords) = <<1, 2>> /\ Len(out.data_vars) = 2
  /\ out.data_vars[1][2].dims = <<2, 1>>

\* C19 as stated: drawing an example changes nothing that was captured when
\* the strategy was constructed, so whenever an example starts, the strategy
\* (with the per-variable dtype mapping in it) is as the constructor built it
\* from the caller's arguments, and the arguments are as the caller gave them.
C19_NoSharedMutableState ==
  (op \in {"datasets", "fixed_coords_datasets"} /\ pc = "built") => S = Call(op, args)

\* C20: the pool of dimension names that reaches map_dict is duplicate-free
\* and at least min_dims long, so the subset_lists(dims, min_dims, max_dims)
\* built during the draw passes its check against the number of unique names:
\* once the constructor accepted the bounds, no draw raises.
C20_DrawTimeSubsetValid ==
  (op \in {"vars_to_dims_dicts", "datasets"}) =>
    /\ pc # "error"
    /\ pc \in {"names", "structure", "coords", "done"} =>
         /\ Unique(pair[2])
         /\ args.min_dims <= uniq_len(pair[2])
         /\ order_check(0, args.min_dims, uniq_len(pair[2]))

C20_Witness ==
  /\ op = "vars_to_dims_dicts" /\ pc = "done"
  /\ args.min_dims = 2 /\ IsNone(args.max_dims)
  /\ pair[2] = <<2, 1>> /\ Len(out) = 1 /\ out[1][2] = <<1, 2>>

\* the distinct dimension names over all variables of a mapping
AllNames(V) == UNION {set(V[i][2]) : i \in 1..Len(V)}

\* C21: with max_dims not None, the distinct dimension names of all variables
\* together are at most max_dims many, in a mapping drawn from
\* vars_to_dims_dicts and in a dataset drawn from datasets (where they are the
\* dataset's coordinates), because all variables choose from the one pool.
C21_TotalDimsBounded ==
  /\ (op = "vars_to_dims_dicts" /\ pc = "done" /\ ~IsNone(args.max_dims)) =>
       /\ Cardinality(AllNames(out)) <= Val(args.max_dims)
       /\ AllNames(out) \subseteq set(pair[2])
       /\ Len(pair[2]) <= Val(args.max_dims)
  /\ (op = "datasets" /\ pc = "done" /\ ~IsNone(args.max_dims)) =>
       /\ Len(out.coords) <= Val(args.max_dims)
       /\ Cardinality(UNION {set(out.data_vars[i][2].dims) : i \in 1..Len(out.data_vars)})
            <= Val(args.max_dims)

C21_Witness ==
  /\ op = "vars_to_dims_dicts" /\ pc = "done"
  /\ args.max_dims = Some(1) /\ Len(out) = 2
  /\ pair[2] = <<2>> /\ out[1][2] = <<2>> /\ out[2][2] = <<2>>
====
